---- MODULE Spec2Model ----
(***************************************************************************)
(* A model of the ecosystem crate (src/src/lib.rs): an Ecosystem owns a    *)
(* vector of organisms and a generation counter; fittest() folds over the  *)
(* vector, select_suitable_organism() is a rejection-sampling loop, and    *)
(* breed_next_generation() maps the slots 0..len in parallel (rayon) and   *)
(* then replaces the vector and increments the counter.                    *)
(*                                                                         *)
(* Organisms are values of an integer-valued implementor of the Organism   *)
(* trait: the organism is its value in 0..MaxValue, its fitness is the     *)
(* value less one (so negative, zero and positive scores all occur),       *)
(* breeding averages the two parents and mutation moves the value by at    *)
(* most the rate.  Fitness values and thresholds are integers:             *)
(* for an integer fitness f and a real threshold t, f > t iff f > floor(t),*)
(* so the integer thresholds 0..best-1 stand for the draws in [0, best).   *)
(***************************************************************************)
EXTENDS Integers, Sequences, FiniteSets

\* Largest population handed to Ecosystem::new.
MaxPop == 2
\* Largest organism value.
MaxValue == 2
\* breed_next_generation is not called once the counter has reached MaxGen.
MaxGen == 2
\* The threads of the rayon pool that run the slot closures.
Threads == {"t1", "t2"}

VARIABLES
    phase,          \* where the caller is: "start", "ready", "breeding", "panicked"
    organisms,      \* Ecosystem.organisms
    generation,     \* Ecosystem.generation
    mutation_rate,  \* argument of the running breed_next_generation call
    slots,          \* the closures of the parallel map, one per index of 0..len
    prior,          \* the organisms at the start of the running call (history)
    fittest_ret     \* index returned by the caller's last fittest() call, 0 if none

vars == <<phase, organisms, generation, mutation_rate, slots, prior, fittest_ret>>

Values == 0..MaxValue
\* The mutation rates handed to breed_next_generation.
Rates == {0, 1}
Populations == UNION {[1..n -> Values] : n \in 0..MaxPop}

----------------------------------------------------------------------------
\* The Organism implementor.

\* Organism::fitness of the implementor: the value less one.
fitness(o) == o - 1

\* A breed that adds the parents' values and forgets to halve the sum.
breed_sum(self, other) == self + other

\* Organism::breed of the implementor: the parents' average, as in the
\* documented example, on integers.
breed(self, other) == (self + other) \div 2

\* Organism::mutate of the implementor: the values the receiver can have
\* afterwards, within the rate of its value.
mutate(child, rate) == {v \in Values : child - rate <= v /\ v <= child + rate}

----------------------------------------------------------------------------
\* Ecosystem::fittest

\* A closure that also replaces the accumulator on equal fitness.
fold_step_ge(orgs, best, i) ==
    IF fitness(orgs[i]) >= fitness(orgs[best]) THEN i ELSE best

\* The fold's closure: keep the accumulator unless the organism is strictly fitter.
fold_step(orgs, best, i) ==
    IF fitness(orgs[i]) > fitness(orgs[best]) THEN i ELSE best

RECURSIVE fold(_, _, _)
fold(orgs, best, i) ==
    IF i > Len(orgs) THEN best ELSE fold(orgs, fold_step(orgs, best, i), i + 1)

\* Index (1-based) of the organism fittest() returns; orgs is not empty.
fittest(orgs) == fold(orgs, 1, 1)

----------------------------------------------------------------------------
\* Ecosystem::select_suitable_organism

\* A range that includes its upper end, gen_range(0.0..=high).
gen_range_inclusive(high) == 0..high

\* rng.gen_range(0.0, high): the thresholds that can be drawn; none when
\* high <= 0, where gen_range panics (low >= high).
gen_range(high) == 0..(high - 1)

\* An acceptance test that also takes a candidate equal to the threshold.
accepts_ge(orgs, cand, thr) == fitness(orgs[cand]) >= thr

\* The acceptance test of the loop.
accepts(orgs, cand, thr) == fitness(orgs[cand]) > thr

----------------------------------------------------------------------------
Idle == [pc |-> "pending", cand |-> 0, mother |-> 0, father |-> 0, child |-> 0]

RunningPcs == {"select_mother", "test_mother", "select_father", "test_father",
               "breed", "mutate"}

Running == {s \in DOMAIN slots : slots[s].pc \in RunningPcs}

\* A range that is one index short.
par_range_short(orgs) == [s \in 1..(Len(orgs) - 1) |-> Idle]

\* (0..self.organisms.len()).into_par_iter(): one closure per index.
par_range(orgs) == [s \in 1..Len(orgs) |-> Idle]

\* collect(): the children in index order.
collect(sl) == [s \in 1..Len(sl) |-> sl[s].child]

\* The map as a panic in slot s leaves it: the children already produced stay
\* in their slots until the unwinding drops them, the other closures are
\* abandoned.
unwind(sl, s, how) ==
    [x \in DOMAIN sl |->
        IF x = s THEN [Idle EXCEPT !.pc = how]
        ELSE IF sl[x].pc = "done" THEN sl[x]
        ELSE [Idle EXCEPT !.pc = "abandoned"]]

AllDone == \A s \in DOMAIN slots : slots[s].pc = "done"

----------------------------------------------------------------------------
Init ==
    /\ phase = "start"
    /\ organisms = <<>>
    /\ generation = 0
    /\ mutation_rate = 0
    /\ slots = <<>>
    /\ prior = <<>>
    /\ fittest_ret = 0

\* Ecosystem::new(organisms)
New(orgs) ==
    /\ phase = "start"
    /\ phase' = "ready"
    /\ organisms' = orgs
    /\ generation' = 0
    /\ UNCHANGED <<mutation_rate, slots, prior, fittest_ret>>

\* The caller's fittest() on a non-empty vector.
Fittest ==
    /\ phase = "ready"
    /\ Len(organisms) > 0
    /\ fittest_ret' = fittest(organisms)
    /\ UNCHANGED <<phase, organisms, generation, mutation_rate, slots, prior>>

\* The caller's fittest() on an empty vector: self.organisms[0] is out of bounds.
FittestPanic ==
    /\ phase = "ready"
    /\ Len(organisms) = 0
    /\ phase' = "panicked"
    /\ UNCHANGED <<organisms, generation, mutation_rate, slots, prior, fittest_ret>>

\* breed_next_generation(rate) is entered: the parallel map is set up.
BreedCall(rate) ==
    /\ phase = "ready"
    /\ generation < MaxGen
    /\ phase' = "breeding"
    /\ mutation_rate' = rate
    /\ slots' = par_range(organisms)
    /\ prior' = organisms
    /\ fittest_ret' = 0
    /\ UNCHANGED <<organisms, generation>>

\* A pool thread takes up the closure of slot s.
Start(s) ==
    /\ phase = "breeding"
    /\ slots[s].pc = "pending"
    /\ Cardinality(Running) < Cardinality(Threads)
    /\ slots' = [slots EXCEPT ![s].pc = "select_mother"]
    /\ UNCHANGED <<phase, organisms, generation, mutation_rate, prior, fittest_ret>>

SelectPc(s) == slots[s].pc \in {"select_mother", "select_father"}
TestPc(s) == slots[s].pc \in {"test_mother", "test_father"}

\* self.organisms.choose(&mut rng): candidate i is chosen.
Choose(s, i) ==
    /\ phase = "breeding"
    /\ SelectPc(s)
    /\ i \in 1..Len(organisms)
    /\ slots' = [slots EXCEPT ![s].cand = i,
                   ![s].pc = IF slots[s].pc = "select_mother"
                             THEN "test_mother" ELSE "test_father"]
    /\ UNCHANGED <<phase, organisms, generation, mutation_rate, prior, fittest_ret>>

\* The slot after its candidate passed or failed the comparison: break with
\* the candidate, or go round the loop again.
after_test(slot, accepted) ==
    IF accepted
    THEN IF slot.pc = "test_mother"
         THEN [slot EXCEPT !.pc = "select_father", !.mother = slot.cand, !.cand = 0]
         ELSE [slot EXCEPT !.pc = "breed", !.father = slot.cand, !.cand = 0]
    ELSE [slot EXCEPT !.pc = IF slot.pc = "test_mother"
                             THEN "select_mother" ELSE "select_father",
                      !.cand = 0]

\* organism.fitness() > rng.gen_range(0.0, self.fittest().fitness()), with
\* thr the threshold drawn.
Test(s, thr) ==
    /\ phase = "breeding"
    /\ TestPc(s)
    /\ thr \in gen_range(fitness(organisms[fittest(organisms)]))
    /\ slots' = [slots EXCEPT
                   ![s] = after_test(slots[s], accepts(organisms, slots[s].cand, thr))]
    /\ UNCHANGED <<phase, organisms, generation, mutation_rate, prior, fittest_ret>>

\* gen_range panics when the fittest organism's fitness is not above 0 (its
\* range is empty); the panic unwinds out of the parallel map into the caller.
TestPanic(s) ==
    /\ phase = "breeding"
    /\ TestPc(s)
    /\ gen_range(fitness(organisms[fittest(organisms)])) = {}
    /\ phase' = "panicked"
    /\ slots' = unwind(slots, s, "panic_range")
    /\ UNCHANGED <<organisms, generation, mutation_rate, prior, fittest_ret>>

\* let mut child = mother.breed(father);
Breed(s) ==
    /\ phase = "breeding"
    /\ slots[s].pc = "breed"
    /\ slots' = [slots EXCEPT ![s].pc = "mutate",
                   ![s].child = breed(organisms[slots[s].mother],
                                      organisms[slots[s].father])]
    /\ UNCHANGED <<phase, organisms, generation, mutation_rate, prior, fittest_ret>>

\* A closure that writes its child straight into its slot of the vector.
Mutate_in_place(s) ==
    /\ phase = "breeding"
    /\ slots[s].pc = "mutate"
    /\ \E c \in mutate(slots[s].child, mutation_rate) :
         /\ slots' = [slots EXCEPT ![s].pc = "done", ![s].child = c,
                                   ![s].mother = 0, ![s].father = 0]
         /\ organisms' = [organisms EXCEPT ![s] = c]
    /\ UNCHANGED <<phase, generation, mutation_rate, prior, fittest_ret>>

\* child.mutate(mutation_rate); child
Mutate(s) ==
    /\ phase = "breeding"
    /\ slots[s].pc = "mutate"
    /\ \E c \in mutate(slots[s].child, mutation_rate) :
         slots' = [slots EXCEPT ![s].pc = "done", ![s].child = c,
                                ![s].mother = 0, ![s].father = 0]
    /\ UNCHANGED <<phase, organisms, generation, mutation_rate, prior, fittest_ret>>

\* A panic that leaves the children produced so far in the vector.
OrganismPanic_partial(s) ==
    /\ phase = "breeding"
    /\ slots[s].pc \in {"test_mother", "test_father", "breed", "mutate"}
    /\ phase' = "panicked"
    /\ slots' = unwind(slots, s, "panic_organism")
    /\ organisms' = [x \in DOMAIN organisms |->
                       IF slots[x].pc = "done" THEN slots[x].child ELSE organisms[x]]
    /\ UNCHANGED <<generation, mutation_rate, prior, fittest_ret>>

\* fitness, breed or mutate of the implementor panics in slot s; the panic
\* unwinds out of the parallel map into the caller.
OrganismPanic(s) ==
    /\ phase = "breeding"
    /\ slots[s].pc \in {"test_mother", "test_father", "breed", "mutate"}
    /\ phase' = "panicked"
    /\ slots' = unwind(slots, s, "panic_organism")
    /\ UNCHANGED <<organisms, generation, mutation_rate, prior, fittest_ret>>

\* A commit that replaces the vector and forgets the counter.
Commit_no_increment ==
    /\ phase = "breeding"
    /\ AllDone
    /\ organisms' = collect(slots)
    /\ phase' = "ready"
    /\ slots' = <<>>
    /\ prior' = <<>>
    /\ mutation_rate' = 0
    /\ UNCHANGED <<generation, fittest_ret>>

\* self.organisms = next_generation; self.generation += 1;
Commit ==
    /\ phase = "breeding"
    /\ AllDone
    /\ organisms' = collect(slots)
    /\ generation' = generation + 1
    /\ phase' = "ready"
    /\ slots' = <<>>
    /\ prior' = <<>>
    /\ mutation_rate' = 0
    /\ UNCHANGED fittest_ret

Next ==
    \/ \E orgs \in Populations : New(orgs)
    \/ Fittest
    \/ FittestPanic
    \/ \E rate \in Rates : BreedCall(rate)
    \/ \E s \in DOMAIN slots : Start(s)
    \/ \E s \in DOMAIN slots, i \in 1..MaxPop : Choose(s, i)
    \/ \E s \in DOMAIN slots, thr \in Values : Test(s, thr)
    \/ \E s \in DOMAIN slots : TestPanic(s)
    \/ \E s \in DOMAIN slots : Breed(s)
    \/ \E s \in DOMAIN slots : Mutate(s)
    \/ \E s \in DOMAIN slots : OrganismPanic(s)
    \/ Commit

Spec == Init /\ [][Next]_vars

\* The specification for eventual commitment: the implementor's methods do
\* not panic and the steps are taken fairly.
LiveNext ==
    \/ \E orgs \in Populations : New(orgs)
    \/ Fittest
    \/ FittestPanic
    \/ \E rate \in Rates : BreedCall(rate)
    \/ \E s \in DOMAIN slots : Start(s)
    \/ \E s \in DOMAIN slots, i \in 1..MaxPop : Choose(s, i)
    \/ \E s \in DOMAIN slots, thr \in Values : Test(s, thr)
    \/ \E s \in DOMAIN slots : TestPanic(s)
    \/ \E s \in DOMAIN slots : Breed(s)
    \/ \E s \in DOMAIN slots : Mutate(s)
    \/ Commit

\* The steps the pool threads take on their own.
Progress ==
    \/ Commit
    \/ \E s \in DOMAIN slots : Start(s)
    \/ \E s \in DOMAIN slots, thr \in Values : Test(s, thr)
    \/ \E s \in DOMAIN slots : Breed(s)
    \/ \E s \in DOMAIN slots : Mutate(s)

\* choose() proposes the organism fittest() returns.
ChooseFittest(s) ==
    s \in DOMAIN slots /\ Len(organisms) > 0 /\ Choose(s, fittest(organisms))

\* The threads keep running, and a selection that keeps drawing candidates
\* draws the fittest one again and again.
Fairness ==
    /\ WF_vars(Progress)
    /\ \A s \in 1..MaxPop : SF_vars(ChooseFittest(s))

LiveSpec == Init /\ [][LiveNext]_vars /\ Fairness

----------------------------------------------------------------------------
\* Properties.

\* The greatest fitness in a non-empty vector.
MaxFitness(orgs) ==
    CHOOSE m \in {fitness(orgs[i]) : i \in DOMAIN orgs} :
        \A i \in DOMAIN orgs : fitness(orgs[i]) <= m

Constructed == phase # "start"

\* C1: the counter is 0 right after Ecosystem::new; a completed
\* breed_next_generation call raises it by exactly 1, and no other step
\* (fittest, the steps of parent selection, breeding, mutation, a panic)
\* changes it.
C1_GenerationCountsAdvances ==
    [][ /\ (phase = "start" /\ phase' = "ready") => generation' = 0
        /\ (phase = "breeding" /\ phase' = "ready") => generation' = generation + 1
        /\ (Constructed /\ ~(phase = "breeding" /\ phase' = "ready"))
               => generation' = generation ]_vars

C1_Witness ==
    /\ phase = "ready"
    /\ generation = 2
    /\ Len(organisms) > 0
    /\ fittest_ret # 0

\* C2: after construction no step changes the number of organisms; in
\* particular a completed breed_next_generation call leaves it as it was.
C2_LengthUnchanged ==
    [][Constructed => Len(organisms') = Len(organisms)]_vars

C2_Witness ==
    /\ phase = "ready"
    /\ generation >= 1
    /\ Len(organisms) = MaxPop

\* C3: on a non-empty vector fittest() returns a member whose fitness is at
\* least that of every organism, and of the organisms of that fitness the
\* one at the lowest index.
C3_FittestIsFirstMaximum ==
    (phase = "ready" /\ fittest_ret # 0) =>
        /\ fittest_ret \in 1..Len(organisms)
        /\ \A j \in 1..Len(organisms) :
               fitness(organisms[j]) <= fitness(organisms[fittest_ret])
        /\ \A j \in 1..(fittest_ret - 1) :
               fitness(organisms[j]) < fitness(organisms[fittest_ret])

C3_Witness ==
    /\ phase = "ready"
    /\ Len(organisms) = 2
    /\ fitness(organisms[1]) = fitness(organisms[2])
    /\ fittest_ret = 1

\* The step is one in which the selection of slot s returns its candidate.
Returned(s) ==
    \/ slots[s].pc = "test_mother" /\ slots'[s].pc = "select_father"
    \/ slots[s].pc = "test_father" /\ slots'[s].pc = "breed"

\* C4: a comparison that accepts on threshold thr returns the candidate, a
\* member of the current vector whose fitness is strictly greater than thr,
\* and thr lies in [0, best); so no parent ever has fitness <= 0.
C4_AcceptedAboveThreshold ==
    /\ [](\A s \in DOMAIN slots :
            /\ slots[s].mother # 0 =>
                 /\ slots[s].mother \in 1..Len(organisms)
                 /\ fitness(organisms[slots[s].mother]) > 0
            /\ slots[s].father # 0 =>
                 /\ slots[s].father \in 1..Len(organisms)
                 /\ fitness(organisms[slots[s].father]) > 0)
    /\ [][\A s \in DOMAIN slots, thr \in Values :
            (Test(s, thr) /\ Returned(s)) =>
                /\ slots[s].cand \in 1..Len(organisms)
                /\ 0 <= thr /\ thr < MaxFitness(organisms)
                /\ fitness(organisms[slots[s].cand]) > thr
                /\ slots[s].pc = "test_mother" => slots'[s].mother = slots[s].cand
                /\ slots[s].pc = "test_father" => slots'[s].father = slots[s].cand
         ]_vars

C4_Witness ==
    /\ phase = "breeding"
    /\ \E s \in DOMAIN slots :
         /\ slots[s].pc = "breed"
         /\ slots[s].mother = 2
    /\ \E i \in DOMAIN organisms : fitness(organisms[i]) <= 0

\* C5: while the closures of one call run, in any interleaving, the vector
\* is the one the call started with; candidates and thresholds are taken
\* from it; and the vector changes only in the one step that replaces it
\* by the children of all the slots.
C5_FrozenSnapshot ==
    /\ [](phase = "breeding" => organisms = prior /\ Len(slots) = Len(prior))
    /\ [][ /\ organisms' # organisms /\ Constructed =>
                /\ phase = "breeding" /\ phase' = "ready"
                /\ \A s \in DOMAIN slots : slots[s].pc = "done"
                /\ organisms' = [s \in 1..Len(prior) |-> slots[s].child]
           /\ \A s \in DOMAIN slots, i \in 1..MaxPop :
                Choose(s, i) => i \in 1..Len(prior)
           /\ \A s \in DOMAIN slots, thr \in Values :
                Test(s, thr) => thr < MaxFitness(prior)
         ]_vars

C5_Witness ==
    /\ phase = "breeding"
    /\ \E s \in DOMAIN slots :
         /\ slots[s].pc = "done"
         /\ slots[s].child # organisms[s]
    /\ \E s \in DOMAIN slots : slots[s].pc \in RunningPcs

\* C6: when fitness, breed or mutate panics in a slot, the call ends in the
\* panic and commits nothing: the vector is the prior generation and the
\* counter is unchanged, whatever children had been produced.
C6_PanicCommitsNothing ==
    /\ [](\A s \in DOMAIN slots :
            slots[s].pc = "panic_organism" =>
                phase = "panicked" /\ organisms = prior)
    /\ [][(phase = "breeding" /\ phase' = "panicked") =>
            organisms' = organisms /\ generation' = generation]_vars

C6_Witness ==
    /\ phase = "panicked"
    /\ \E s \in DOMAIN slots : slots[s].pc = "panic_organism"
    /\ \E s \in DOMAIN slots :
         /\ slots[s].pc = "done"
         /\ slots[s].child # organisms[s]

\* C7: no constructed Ecosystem has an empty vector, and none with an empty
\* vector has completed a breed_next_generation call.
C7_NeverEmpty ==
    /\ phase \in {"ready", "breeding"} => Len(organisms) > 0
    /\ ~(Len(organisms) = 0 /\ generation > 0)

\* The running (or panicked) call started on a single organism.
SingleCall == phase \in {"breeding", "panicked"} /\ Len(prior) = 1

\* What C8 says of the slot of a single-organism call: both parents are the
\* organism, the child before mutation is the organism bred with itself (its
\* own value) and the child after mutation is within the rate of it.
SelfBred ==
    \A s \in DOMAIN slots :
        /\ slots[s].pc = "breed" => slots[s].mother = 1 /\ slots[s].father = 1
        /\ slots[s].pc = "mutate" => slots[s].child = prior[1]
        /\ slots[s].pc = "done" =>
             /\ slots[s].child >= prior[1] - mutation_rate
             /\ slots[s].child <= prior[1] + mutation_rate

\* C8 as stated: a call on any single organism breeds it with itself and
\* does not fail in parent selection.
C8_SingleAlwaysSucceeds ==
    SingleCall =>
        /\ SelfBred
        /\ \A s \in DOMAIN slots : slots[s].pc # "panic_range"

\* C8 as amended: a call on a single organism of fitness above 0 does not
\* fail in parent selection, every comparison accepts the organism at once,
\* the child is the mutation of the organism bred with itself, and the call
\* completes with one organism.
C8_SelfBreeding ==
    /\ [](SingleCall => SelfBred)
    /\ [](SingleCall /\ fitness(prior[1]) > 0 =>
            \A s \in DOMAIN slots : slots[s].pc # "panic_range")
    /\ [][(SingleCall /\ fitness(prior[1]) > 0) =>
            \A s \in DOMAIN slots, thr \in Values :
                Test(s, thr) => Returned(s)]_vars
    /\ [][(phase = "breeding" /\ phase' = "ready" /\ Len(organisms) = 1) =>
            /\ Len(organisms') = 1
            /\ organisms'[1] >= organisms[1] - mutation_rate
            /\ organisms'[1] <= organisms[1] + mutation_rate]_vars

C8_Witness ==
    /\ phase = "ready"
    /\ generation >= 1
    /\ Len(organisms) = 1

\* The running (or panicked) call started on a non-empty vector whose
\* fittest organism has fitness 0 or less.
Degenerate ==
    /\ phase \in {"breeding", "panicked"}
    /\ Len(prior) > 0
    /\ MaxFitness(prior) <= 0

\* C9 as stated: in the degenerate case parent selection neither returns
\* nor aborts.
C9_LoopsForever ==
    Degenerate =>
        \A s \in DOMAIN slots :
            slots[s].pc \notin {"select_father", "test_father", "breed", "mutate",
                                "done", "panic_range"}

\* C9 as amended: in the degenerate case parent selection never returns and
\* does not loop: the first comparison panics in the threshold draw, so the
\* call ends in the panic, never completes and never changes the vector or
\* the counter.
C9_DegenerateAborts ==
    /\ [](Degenerate =>
            /\ organisms = prior
            /\ \A s \in DOMAIN slots :
                 slots[s].pc \in {"pending", "select_mother", "test_mother",
                                  "abandoned", "panic_range", "panic_organism"})
    /\ [][(Degenerate /\ phase = "breeding") =>
            /\ phase' # "ready"
            /\ generation' = generation
            /\ \A s \in DOMAIN slots :
                 (slots[s].pc = "test_mother" /\ slots'[s] # slots[s]) =>
                     phase' = "panicked"]_vars

C9_Witness ==
    /\ Degenerate
    /\ phase = "panicked"
    /\ \E s \in DOMAIN slots : slots[s].pc = "panic_range"

\* C10: a call on a vector with an organism of fitness above 0 eventually
\* commits the new generation.
C10_EventuallyCommits ==
    (phase = "breeding" /\ \E i \in DOMAIN organisms : fitness(organisms[i]) > 0)
        ~> (phase = "ready")

C10_Witness ==
    /\ phase = "breeding"
    /\ Len(slots) = MaxPop
    /\ AllDone
    /\ \E i \in DOMAIN prior : fitness(prior[i]) > 0
    /\ \E i \in DOMAIN prior : fitness(prior[i]) <= 0

====
